---------------------------- MODULE Spec2Model ----------------------------
(***************************************************************************)
(* A model of docker-logentries (src/index.js): the filter transform       *)
(* (enrich, token selection, regular-expression policy, wire encoding),    *)
(* the start() function that creates the sources and counts them, the      *)
(* reconnecting output pipe() and the streamClosed() shutdown.             *)
(*                                                                         *)
(* Texts (container names, images, patterns, field values) are sequences   *)
(* of one-character strings, so that a regular expression is matched       *)
(* character by character.  Tokens and the pieces pushed downstream are    *)
(* strings.  An event is a sequence of <<key, value>> pairs in insertion   *)
(* order, as a JavaScript object enumerates its own keys.                  *)
(***************************************************************************)
EXTENDS Naturals, Integers, Sequences, FiniteSets, TLC

VARIABLES
  opts,           \* the options object handed to start()
  phase,          \* "boot", "running", "fatal" (start threw), "crashed" (uncaught error)
  src,            \* per channel: "none" (not created), "open", "done"
  eosDone,        \* per channel: the once-wrapped eos callback has run
  streamsOpened,  \* the counter of start()
  filterEnded,    \* filter.end() has been called
  fbuf,           \* the filter's readable buffer: pieces pushed and not yet written
  pipes,          \* the sockets the filter is piped to
  paused,         \* the filter was paused by a write that returned false
  sockets,        \* every socket connect() returned, in order of creation
  out,            \* index of the socket in the variable out (0: undefined)
  noRestart,      \* index of the socket whose eos noRestart cancels (0: the no-op)
  emitted,        \* history: the events the sources emitted, in order
  stalls,         \* history: how many writes to a socket returned false
  lateClose,      \* history: a source emitted 'close' after its end or error
  shutdowns,      \* history: how often streamClosed ran noRestart(); out.destroy()
  shutdownLog,    \* history: what streamClosed saw each time it shut down
  fin,            \* filter check: the raw event last written to the filter
  fres,           \* filter check: what the transform did with it
  thrown,         \* the error that ended the process ("": none)
  lookups,        \* how many requests generateTokens made to the metadata service
  starts,         \* how many times start() was called
  response        \* what the metadata service answered

vars == <<opts, phase, src, eosDone, streamsOpened, filterEnded, fbuf, pipes,
          paused, sockets, out, noRestart, emitted, stalls, lateClose,
          shutdowns, shutdownLog, fin, fres, thrown, lookups, starts,
          response>>

genVars == <<thrown, lookups, starts, response>>

runVars == <<phase, src, eosDone, streamsOpened, filterEnded, fbuf, pipes,
             paused, sockets, out, noRestart, emitted, stalls, lateClose,
             shutdowns, shutdownLog>>

-----------------------------------------------------------------------------
(* Values *)

\* JavaScript's undefined: what reading an absent property gives.  It is a
\* sequence like every text, and no text (texts hold one-character strings).
UNDEF == <<"undefined">>

\* opts.add === null (the embedded usage's "add: null").
NullProto == << <<"null">> >>

\* A value used as a condition: undefined and the empty string are falsy.
Truthy(v) == v # UNDEF /\ v # <<>>

\* String(v): undefined becomes the text "undefined".
Coerce(v) ==
  IF v = UNDEF THEN <<"u", "n", "d", "e", "f", "i", "n", "e", "d">> ELSE v

HasKey(obj, k) == \E i \in 1..Len(obj) : obj[i][1] = k

\* obj[k]
Get(obj, k) ==
  IF HasKey(obj, k)
    THEN obj[CHOOSE i \in 1..Len(obj) : obj[i][1] = k][2]
    ELSE UNDEF

\* obj[k] = v: an existing key keeps its place, a new key is added last.
Put(obj, k, v) ==
  IF HasKey(obj, k)
    THEN [i \in 1..Len(obj) |-> IF obj[i][1] = k THEN <<k, v>> ELSE obj[i]]
    ELSE Append(obj, <<k, v>>)

Keys(obj) == {obj[i][1] : i \in 1..Len(obj)}

-----------------------------------------------------------------------------
(* addAll *)

RECURSIVE AddKeys(_, _)
AddKeys(proto, obj) ==
  IF proto = <<>> THEN obj
  ELSE AddKeys(Tail(proto), Put(obj, Head(proto)[1], Head(proto)[2]))

\* A plausible slip: a field the event already has is kept.
RECURSIVE AddMissingKeys(_, _)
AddMissingKeys(proto, obj) ==
  IF proto = <<>> \/ proto = NullProto THEN obj
  ELSE AddMissingKeys(Tail(proto),
         IF HasKey(obj, Head(proto)[1]) THEN obj
         ELSE Put(obj, Head(proto)[1], Head(proto)[2]))

addAll(proto, obj) ==
  IF proto = NullProto THEN obj ELSE AddKeys(proto, obj)

-----------------------------------------------------------------------------
(* new RegExp(pattern) and String.prototype.match, for patterns made of    *)
(* literal characters with an optional leading ^ and trailing $.           *)

PatBody(pat) ==
  LET a == IF pat # <<>> /\ pat[1] = "^" THEN 2 ELSE 1
      b == IF Len(pat) >= a /\ pat[Len(pat)] = "$" THEN Len(pat) - 1 ELSE Len(pat)
  IN  SubSeq(pat, a, b)

OccursAt(lit, text, i) ==
  /\ i + Len(lit) - 1 <= Len(text)
  /\ \A j \in 1..Len(lit) : text[i + j - 1] = lit[j]

\* text.match(new RegExp(pat)) != null
RegExpMatch(pat, text) ==
  LET atStart == pat # <<>> /\ pat[1] = "^"
      atEnd   == Len(pat) >= (IF atStart THEN 2 ELSE 1) /\ pat[Len(pat)] = "$"
      lit     == PatBody(pat)
  IN  \E i \in 1..(Len(text) + 1) :
        /\ OccursAt(lit, text, i)
        /\ atStart => i = 1
        /\ atEnd => i + Len(lit) - 1 = Len(text)

-----------------------------------------------------------------------------
(* The filter transform *)

\* A plausible slip: the events token and the stats token exchanged.
SelectTokenSwapped(o, obj) ==
  IF Truthy(Get(obj, "line")) THEN o.logstoken
  ELSE IF Truthy(Get(obj, "type")) THEN o.statstoken
  ELSE IF Truthy(Get(obj, "stats")) THEN o.eventstoken
  ELSE ""

SelectToken(o, obj) ==
  IF Truthy(Get(obj, "line")) THEN o.logstoken
  ELSE IF Truthy(Get(obj, "type")) THEN o.eventstoken
  ELSE IF Truthy(Get(obj, "stats")) THEN o.statstoken
  ELSE ""

\* A plausible slip: the last check tests the name instead of the image.
PassesRegexWrongField(o, obj) ==
  /\ o.matchByName # <<>> => RegExpMatch(o.matchByName, Coerce(Get(obj, "name")))
  /\ o.matchByImage # <<>> => RegExpMatch(o.matchByImage, Coerce(Get(obj, "image")))
  /\ o.skipByName # <<>> => ~RegExpMatch(o.skipByName, Coerce(Get(obj, "name")))
  /\ o.skipByImage # <<>> => ~RegExpMatch(o.skipByImage, Coerce(Get(obj, "name")))

PassesRegex(o, obj) ==
  /\ o.matchByName # <<>> => RegExpMatch(o.matchByName, Coerce(Get(obj, "name")))
  /\ o.matchByImage # <<>> => RegExpMatch(o.matchByImage, Coerce(Get(obj, "image")))
  /\ o.skipByName # <<>> => ~RegExpMatch(o.skipByName, Coerce(Get(obj, "name")))
  /\ o.skipByImage # <<>> => ~RegExpMatch(o.skipByImage, Coerce(Get(obj, "image")))

RECURSIVE Str(_)
Str(text) == IF text = <<>> THEN "" ELSE Head(text) \o Str(Tail(text))

\* JSON.stringify of an object whose values are strings or undefined: the
\* members in insertion order, a member whose value is undefined left out.
RECURSIVE Members(_, _)
Members(obj, first) ==
  IF obj = <<>> THEN ""
  ELSE IF Head(obj)[2] = UNDEF THEN Members(Tail(obj), first)
  ELSE (IF first THEN "" ELSE ",")
       \o "\"" \o Head(obj)[1] \o "\":\"" \o Str(Head(obj)[2]) \o "\""
       \o Members(Tail(obj), FALSE)

Stringify(obj) == "{" \o Members(obj, TRUE) \o "}"

\* A plausible slip: the separator between token and event is not pushed.
PushedNoSpace(token, obj) == <<token, Stringify(obj), "\n">>

Pushed(token, obj) == <<token, " ", Stringify(obj), "\n">>

\* through.obj(function(obj, enc, cb) {...}): the enriched event, the chunks
\* pushed, and whether cb was called.
FilterTransform(o, raw) ==
  LET obj   == addAll(o.add, raw)
      token == SelectToken(o, obj)
  IN  [obj    |-> obj,
       token  |-> token,
       pushed |-> IF token # "" /\ PassesRegex(o, obj)
                    THEN Pushed(token, obj) ELSE <<>>,
       cb     |-> TRUE]

-----------------------------------------------------------------------------
(* The inputs of the filter check *)

web1   == <<"w", "e", "b", "1">>
db1    == <<"d", "b", "1">>
webdb  == <<"w", "e", "b", "d", "b">>
nginx  == <<"n", "g", "i", "n", "x">>
node   == <<"n", "o", "d", "e">>
hello  == <<"h", "e", "l", "l", "o">>
startT == <<"s", "t", "a", "r", "t">>
cpu    == <<"c", "p", "u">>
h1     == <<"h", "1">>
old    == <<"o", "l", "d">>
prod   == <<"p", "r", "o", "d">>

\* The payload fields of a raw event: those the three sources produce, an
\* empty log line, no payload at all, and more than one payload field.
Payloads ==
  { <<>>,
    << <<"line", hello>> >>,
    << <<"line", <<>> >> >>,
    << <<"type", startT>> >>,
    << <<"stats", cpu>> >>,
    << <<"line", hello>>, <<"type", startT>> >>,
    << <<"line", <<>> >>, <<"type", startT>> >>,
    << <<"type", startT>>, <<"stats", cpu>> >>,
    << <<"line", <<>> >>, <<"stats", cpu>> >> }

NameFields  == { <<>>, << <<"name", web1>> >>, << <<"name", db1>> >>,
                 << <<"name", webdb>> >> }
ImageFields == { <<>>, << <<"image", nginx>> >>, << <<"image", node>> >> }
HostFields  == { <<>>, << <<"host", old>> >> }

\* A log line under every name and image, and every payload under one name
\* and image, with and without a host field of its own.
RawEvents ==
  { << <<"line", hello>> >> \o n \o i : n \in NameFields, i \in ImageFields }
  \cup
  { p \o << <<"name", web1>>, <<"image", node>> >> \o h :
      p \in Payloads, h \in HostFields }

\* opts.add: null, empty, a host annotation (cli's default), an annotation
\* named like a payload field, and "-a tag" (no value: undefined).
AddSets ==
  { NullProto,
    <<>>,
    << <<"host", h1>> >>,
    << <<"host", h1>>, <<"type", prod>> >>,
    << <<"tag", UNDEF>> >> }

MatchNamePatterns  == { <<>>, <<"^", "w", "e", "b">> }
MatchImagePatterns == { <<>>, <<"n">> }
SkipNamePatterns   == { <<>>, <<"d", "b">> }
SkipImagePatterns  == { <<>>, <<"x", "$">> }

\* opts.logs, opts.stats, opts.dockerEvents: true, false, or not given.
Flags == {"true", "false", "absent"}

Channels == {"logs", "stats", "dockerEvents"}

FilterConfigs ==
  [ logs : {"true"}, stats : {"true"}, dockerEvents : {"true"},
    logstoken : {"", "LT"}, statstoken : {"", "ST"}, eventstoken : {"", "ET"},
    matchByName : MatchNamePatterns, matchByImage : MatchImagePatterns,
    skipByName : SkipNamePatterns, skipByImage : SkipImagePatterns,
    add : AddSets ]

NoResult == [obj |-> <<>>, token |-> "", pushed |-> <<>>, cb |-> FALSE]

\* The host labels of the metadata service that generateTokens reads; ""
\* stands for a label the host does not have.
NoLabels == [base |-> "", logs |-> "", stats |-> "", events |-> ""]

\* No answer of the metadata service yet.
NoResponse == [kind |-> "none", labels |-> NoLabels]

\* The state before start(opts) is called.
Boot ==
  /\ phase = "boot"
  /\ src = [c \in Channels |-> "none"]
  /\ eosDone = [c \in Channels |-> FALSE]
  /\ streamsOpened = 0
  /\ filterEnded = FALSE
  /\ fbuf = <<>>
  /\ pipes = {}
  /\ paused = FALSE
  /\ sockets = <<>>
  /\ out = 0
  /\ noRestart = 0
  /\ emitted = <<>>
  /\ stalls = 0
  /\ lateClose = FALSE
  /\ shutdowns = 0
  /\ shutdownLog = <<>>
  /\ fin = <<>>
  /\ fres = NoResult
  /\ thrown = ""
  /\ lookups = 0
  /\ starts = 0
  /\ response = NoResponse

InitFilter == opts \in FilterConfigs /\ Boot

\* One event written to the filter: filter.write(raw).
FilterWrite ==
  \E raw \in RawEvents :
    /\ fin' = raw
    /\ fres' = FilterTransform(opts, raw)
    /\ UNCHANGED <<opts, runVars, genVars>>

NextFilter == FilterWrite

SpecFilter == InitFilter /\ [][NextFilter]_vars

-----------------------------------------------------------------------------
(* start(opts): the sources, the counter, the output connection *)

\* How many events the sources emit in one run, how many sockets connect()
\* creates in one run, and how many writes to a socket return false.
MaxEvents == 2
MaxSockets == 3
MaxStalls == 1

ChannelToken(o, c) ==
  IF c = "logs" THEN o.logstoken
  ELSE IF c = "stats" THEN o.statstoken
  ELSE o.eventstoken

\* A plausible slip: the token is not looked at.
ChannelCreatedByFlag(flag, token) == flag # "false"

\* opts.logs !== false && opts.logstoken
ChannelCreated(flag, token) == flag # "false" /\ token # ""

Created(o) == { c \in Channels : ChannelCreated(o[c], ChannelToken(o, c)) }

\* What the three sources emit: a log line of a container that passes the
\* policy and one of a container it skips, a stats sample, a docker event.
SourceEvents(c) ==
  IF c = "logs" THEN
    { << <<"line", hello>>, <<"name", web1>>, <<"image", node>> >>,
      << <<"line", hello>>, <<"name", db1>>, <<"image", node>> >> }
  ELSE IF c = "stats" THEN
    { << <<"stats", cpu>>, <<"name", web1>>, <<"image", node>> >> }
  ELSE
    { << <<"type", startT>>, <<"name", web1>>, <<"image", node>> >> }

\* The socket connect() returns, with the listeners pipe() puts on it.
NewSocket ==
  [ st        |-> "connecting",  \* connecting, open, ended ('error' or
                                 \* 'finish' emitted, 'close' pending),
                                 \* destroyed ('close' pending), closed
    rcv       |-> <<>>,          \* the chunks written to it
    eosOn     |-> TRUE,          \* eos's listeners are on it
    eosFired  |-> FALSE,         \* eos's once-wrapped callback has run
    needDrain |-> FALSE,         \* a write to it returned false
    auth      |-> "none" ]       \* tls: the peer was authorized ("yes",
                                 \* "no"; "none": no handshake completed)

\* The connection state the handlers below read and write.
Conn ==
  [ sockets |-> sockets, out |-> out, pipes |-> pipes, paused |-> paused,
    fbuf |-> fbuf, noRestart |-> noRestart ]

SetConn(r) ==
  /\ sockets' = r.sockets
  /\ out' = r.out
  /\ pipes' = r.pipes
  /\ paused' = r.paused
  /\ fbuf' = r.fbuf
  /\ noRestart' = r.noRestart

\* A plausible slip: the socket stays a destination of the filter.
UnpipeNothing(r, k) == r

\* filter.unpipe(k)
Unpipe(r, k) == [r EXCEPT !.pipes = @ \ {k}]

\* The chunks the flowing filter can hand over now.
CanFlow(r) == r.pipes # {} /\ ~r.paused /\ r.fbuf # <<>>

\* Where the flow may stop: 0 if every write returns true, j if the j-th
\* write returns false (the chunk is taken, the filter pauses).
Stops(r) ==
  IF CanFlow(r) /\ stalls < MaxStalls THEN 0..Len(r.fbuf) ELSE {0}


\* The filter's 'data' events while it flows: dest.write(chunk) for every
\* destination, src.pause() when a write returns false.
Flow(r, j) ==
  IF ~CanFlow(r) THEN r
  ELSE LET n == IF j = 0 THEN Len(r.fbuf) ELSE j
       IN  [r EXCEPT
             !.sockets = [k \in 1..Len(r.sockets) |->
                            IF k \in r.pipes
                              THEN [r.sockets[k] EXCEPT
                                      !.rcv = @ \o SubSeq(r.fbuf, 1, n),
                                      !.needDrain = @ \/ j > 0]
                              ELSE r.sockets[k]],
             !.fbuf = SubSeq(r.fbuf, n + 1, Len(r.fbuf)),
             !.paused = j > 0]

\* The flow of r stops at j.
Flows(r, j) ==
  /\ SetConn(Flow(r, j))
  /\ stalls' = IF j > 0 THEN stalls + 1 ELSE stalls

\* A plausible slip: the old socket stays piped.
PipeNoUnpipe(r) ==
  LET n  == Len(r.sockets) + 1
  IN  [r EXCEPT !.sockets = Append(@, NewSocket), !.out = n,
                !.pipes = @ \cup {n}, !.paused = FALSE, !.noRestart = n]

\* A plausible slip: the canceller of the first socket is kept.
PipeStaleCanceller(r) ==
  LET r1 == IF r.out # 0 THEN Unpipe(r, r.out) ELSE r
      n  == Len(r.sockets) + 1
  IN  [r1 EXCEPT !.sockets = Append(@, NewSocket), !.out = n,
                 !.pipes = @ \cup {n}, !.paused = FALSE,
                 !.noRestart = IF r.noRestart = 0 THEN n ELSE r.noRestart]

\* A plausible slip: the filter paused by the old socket stays paused.
PipeStaysPaused(r) ==
  LET r1 == IF r.out # 0 THEN Unpipe(r, r.out) ELSE r
      n  == Len(r.sockets) + 1
  IN  [r1 EXCEPT !.sockets = Append(@, NewSocket), !.out = n,
                 !.pipes = @ \cup {n}, !.noRestart = n]

\* function pipe(): unpipe the old socket, connect, pipe the filter to the
\* new socket (which resumes the filter), have eos call pipe again.
Pipe(r) ==
  LET r1 == IF r.out # 0 THEN Unpipe(r, r.out) ELSE r
      n  == Len(r.sockets) + 1
  IN  [r1 EXCEPT !.sockets = Append(@, NewSocket), !.out = n,
                 !.pipes = @ \cup {n}, !.paused = FALSE, !.noRestart = n]

\* A plausible slip: the callback is not wrapped in once().
OnceFiresAgain(done) == TRUE

\* eos wraps its callback in once(): it runs if it has not run before.
OnceFires(done) == ~done

\* eos(out, pipe) hears of the end of socket k.
EosSocket(r, k) ==
  IF r.sockets[k].eosOn /\ OnceFires(r.sockets[k].eosFired)
    THEN Pipe([r EXCEPT !.sockets[k].eosFired = TRUE])
    ELSE r

\* Whether the handlers of socket k's end create a socket.
Reconnects(r, k) == r.sockets[k].eosOn /\ OnceFires(r.sockets[k].eosFired)

\* noRestart(): eos's listeners are taken off the socket.
CancelRestart(r) ==
  IF r.noRestart = 0 THEN r
  ELSE [r EXCEPT !.sockets[r.noRestart].eosOn = FALSE]

\* out.destroy()
Destroy(r) ==
  [r EXCEPT !.sockets[r.out].st =
     IF @ \in {"connecting", "open"} THEN "destroyed" ELSE @]

\* A plausible slip: the socket is destroyed with the reconnect still armed.
ShutdownArmed(r) == Destroy(r)

\* noRestart(); out.destroy();
Shutdown(r) == Destroy(CancelRestart(r))

\* A plausible slip: shut down when one source is still open.
ShutsAtOne(n) == n <= 1

\* streamClosed's test
Shuts(n) == n <= 0

\* function streamClosed(streamsOpened)
StreamClosed(r, n) == IF Shuts(n) THEN Shutdown(r) ELSE r

RunConfigs ==
  [ logs : {"true", "false"}, stats : {"true", "false"},
    dockerEvents : {"true", "false"},
    logstoken : {"LT"}, statstoken : {"ST"}, eventstoken : {"ET"},
    matchByName : {<<>>}, matchByImage : {<<>>},
    skipByName : {<<"d", "b">>}, skipByImage : {<<>>},
    add : { << <<"host", h1>> >> }, secure : {FALSE} ]

\* The same with --secure (and --no-stats).
SecureConfigs ==
  { [o EXCEPT !.secure = TRUE] : o \in {r \in RunConfigs : r.stats = "false"} }

StartConfigs ==
  [ logs : Flags, stats : Flags, dockerEvents : Flags,
    logstoken : {"", "LT"}, statstoken : {"", "ST"}, eventstoken : {"", "ET"},
    matchByName : {<<>>}, matchByImage : {<<>>},
    skipByName : {<<>>}, skipByImage : {<<>>},
    add : { << <<"host", h1>> >> } ]

Init == opts \in RunConfigs /\ Boot

InitStart == opts \in StartConfigs /\ Boot

InitSecure == opts \in SecureConfigs /\ Boot

\* A plausible slip: pipe() is called before the check.
ThrowAfterPipe(r) == Pipe(r)

\* What start() has done to the connection when it throws: nothing, the
\* throw of line 123 comes before pipe().
BeforeThrow(r) == r

\* start(opts) with no source created throws.
StartFatal ==
  /\ phase = "boot"
  /\ Created(opts) = {}
  /\ phase' = "fatal"
  /\ thrown' = "no-channel"
  /\ starts' = starts + 1
  /\ SetConn(BeforeThrow(Conn))
  /\ UNCHANGED <<opts, src, eosDone, streamsOpened, filterEnded, emitted,
                 stalls, lateClose, shutdowns, shutdownLog, fin, fres,
                 lookups, response>>

\* start(opts): the sources are created and counted, pipe() connects, eos
\* watches every source.
StartRun ==
  /\ phase = "boot"
  /\ Created(opts) # {}
  /\ phase' = "running"
  /\ src' = [c \in Channels |-> IF c \in Created(opts) THEN "open" ELSE "none"]
  /\ streamsOpened' =
       (IF "logs" \in Created(opts) THEN 1 ELSE 0)
       + (IF "stats" \in Created(opts) THEN 1 ELSE 0)
       + (IF "dockerEvents" \in Created(opts) THEN 1 ELSE 0)
  /\ SetConn(Pipe(Conn))
  /\ starts' = starts + 1
  /\ UNCHANGED <<opts, eosDone, filterEnded, emitted, stalls, lateClose, shutdowns,
                 shutdownLog, fin, fres, thrown, lookups, response>>

\* The chunks of the n-th event, as the filter's readable side holds them.
Chunks(n, pushed) ==
  [i \in 1..Len(pushed) |-> [ev |-> n, part |-> i, text |-> pushed[i]]]

\* Source c emits an event: source.pipe(filter) writes it to the filter.  A
\* write to the ended filter emits 'error' on it, which nothing handles.
Emit(c) ==
  /\ phase = "running"
  /\ src[c] = "open"
  /\ Len(emitted) < MaxEvents
  /\ \E raw \in SourceEvents(c) :
       LET res == FilterTransform(opts, raw)
           n   == Len(emitted) + 1
           r   == [Conn EXCEPT !.fbuf = @ \o Chunks(n, res.pushed)]
       IN  /\ emitted' = Append(emitted, [src |-> c,
                                          passes |-> res.pushed # <<>>,
                                          reconnected |-> Len(sockets) > 1])
           /\ IF filterEnded
                THEN /\ phase' = "crashed"
                     /\ thrown' = "write-after-end"
                     /\ UNCHANGED <<sockets, out, pipes, paused, fbuf,
                                    noRestart, stalls>>
                ELSE /\ phase' = phase
                     /\ thrown' = thrown
                     /\ \E j \in Stops(r) : Flows(r, j)
  /\ UNCHANGED <<opts, src, eosDone, streamsOpened, filterEnded, lateClose, shutdowns,
                 shutdownLog, fin, fres, lookups, starts, response>>

\* A plausible slip: an unauthorized peer is let through.
OnSecureAccepts(authorized) == ""

\* function onSecure(): what it throws ("": nothing).
OnSecure(authorized) == IF ~authorized THEN "unauthorized" ELSE ""

\* The connection of the current socket is established; in secure mode the
\* handshake completes, with the peer authorized or not, and tls calls
\* onSecure.  What onSecure throws nothing catches.
Connected(k) ==
  /\ phase = "running"
  /\ k = out
  /\ sockets[k].st = "connecting"
  /\ \E authorized \in BOOLEAN :
       LET e == IF opts.secure THEN OnSecure(authorized) ELSE ""
       IN  /\ sockets' = [sockets EXCEPT
                            ![k].st = "open",
                            ![k].auth = IF ~opts.secure THEN "none"
                                        ELSE IF authorized THEN "yes" ELSE "no"]
           /\ thrown' = IF e # "" THEN e ELSE thrown
           /\ phase' = IF e # "" THEN "crashed" ELSE phase
  /\ UNCHANGED <<opts, src, eosDone, streamsOpened, filterEnded, fbuf,
                 pipes, paused, out, noRestart, emitted, stalls, lateClose, shutdowns,
                 shutdownLog, fin, fres, lookups, starts, response>>

\* Socket k emits 'drain': the pipe's ondrain makes the filter flow again.
Drain(k) ==
  /\ phase = "running"
  /\ k \in 1..Len(sockets)
  /\ sockets[k].st = "open"
  /\ sockets[k].needDrain
  /\ LET r0 == [Conn EXCEPT !.sockets[k].needDrain = FALSE]
         r  == IF k \in pipes THEN [r0 EXCEPT !.paused = FALSE] ELSE r0
     IN  \E j \in Stops(r) : Flows(r, j)
  /\ UNCHANGED <<opts, phase, src, eosDone, streamsOpened, filterEnded,
                 emitted, lateClose, shutdowns, shutdownLog, fin, fres, genVars>>

\* The end of socket k reaches its listeners: the pipe's own (unpipe) and
\* eos's (pipe() again, once); then the resumed filter flows.
SocketEnds(k, st) ==
  /\ Reconnects(Conn, k) => Len(sockets) < MaxSockets
  /\ LET r0 == [Unpipe(Conn, k) EXCEPT !.sockets[k].st = st,
                                       !.sockets[k].needDrain = FALSE]
         r  == EosSocket(r0, k)
     IN  \E j \in Stops(r) : Flows(r, j)

\* Socket k emits 'error' (the connect fails, the connection breaks).  With
\* no listener for it the error is thrown.
SocketError(k) ==
  /\ phase = "running"
  /\ k \in 1..Len(sockets)
  /\ sockets[k].st \in {"connecting", "open"}
  /\ IF sockets[k].eosOn
       THEN /\ SocketEnds(k, "ended")
            /\ phase' = phase
            /\ thrown' = thrown
       ELSE /\ phase' = "crashed"
            /\ thrown' = "socket-error"
            /\ UNCHANGED <<sockets, out, pipes, paused, fbuf, noRestart,
                           stalls>>
  /\ UNCHANGED <<opts, src, eosDone, streamsOpened, filterEnded, emitted,
                 lateClose, shutdowns, shutdownLog, fin, fres, lookups,
                 starts, response>>

\* The remote end closes socket k: the socket ends its writable side and
\* emits 'finish'.
SocketFinish(k) ==
  /\ phase = "running"
  /\ k \in 1..Len(sockets)
  /\ sockets[k].st = "open"
  /\ SocketEnds(k, "ended")
  /\ UNCHANGED <<opts, phase, src, eosDone, streamsOpened, filterEnded,
                 emitted, lateClose, shutdowns, shutdownLog, fin, fres, genVars>>

\* Socket k emits 'close', after its 'error' or 'finish' or its destroy().
SocketClose(k) ==
  /\ phase = "running"
  /\ k \in 1..Len(sockets)
  /\ sockets[k].st \in {"ended", "destroyed"}
  /\ SocketEnds(k, "closed")
  /\ UNCHANGED <<opts, phase, src, eosDone, streamsOpened, filterEnded,
                 emitted, lateClose, shutdowns, shutdownLog, fin, fres, genVars>>

\* eos(source, function() { streamsOpened--; streamClosed(streamsOpened) })
\* hears of the end of source c.
SourceDone(c) ==
  /\ src' = [src EXCEPT ![c] = "done"]
  /\ IF OnceFires(eosDone[c])
       THEN /\ eosDone' = [eosDone EXCEPT ![c] = TRUE]
            /\ streamsOpened' = streamsOpened - 1
            /\ SetConn(StreamClosed(Conn, streamsOpened - 1))
            /\ shutdowns' = IF Shuts(streamsOpened - 1)
                              THEN shutdowns + 1 ELSE shutdowns
            /\ shutdownLog' =
                 IF Shuts(streamsOpened - 1)
                   THEN Append(shutdownLog,
                          [open    |-> {d \in Channels : src'[d] = "open"},
                           count   |-> streamsOpened - 1,
                           sockets |-> Len(sockets)])
                   ELSE shutdownLog
       ELSE UNCHANGED <<eosDone, streamsOpened, sockets, out, pipes, paused,
                        fbuf, noRestart, shutdowns, shutdownLog>>

\* Source c ends: its pipe to the filter calls filter.end(), eos calls back.
SourceEnd(c) ==
  /\ phase = "running"
  /\ src[c] = "open"
  /\ filterEnded' = TRUE
  /\ SourceDone(c)
  /\ UNCHANGED <<opts, phase, emitted, stalls, lateClose, fin, fres, genVars>>

\* Source c emits 'error': eos calls back.
SourceError(c) ==
  /\ phase = "running"
  /\ src[c] = "open"
  /\ SourceDone(c)
  /\ UNCHANGED <<opts, phase, filterEnded, emitted, stalls, lateClose, fin,
                 fres, genVars>>

\* Source c emits 'close': with no end or error before it (a premature
\* close), or after its end or error, when eos hears of source c again.
SourceClose(c) ==
  /\ phase = "running"
  /\ src[c] \in {"open", "done"}
  /\ lateClose' = (lateClose \/ src[c] = "done")
  /\ SourceDone(c)
  /\ UNCHANGED <<opts, phase, filterEnded, emitted, stalls, fin, fres, genVars>>

Next ==
  \/ StartFatal
  \/ StartRun
  \/ \E c \in Channels : Emit(c)
  \/ \E k \in 1..MaxSockets : Connected(k)
  \/ \E k \in 1..MaxSockets : Drain(k)
  \/ \E k \in 1..MaxSockets : SocketError(k)
  \/ \E k \in 1..MaxSockets : SocketFinish(k)
  \/ \E k \in 1..MaxSockets : SocketClose(k)
  \/ \E c \in Channels : SourceEnd(c)
  \/ \E c \in Channels : SourceError(c)
  \/ \E c \in Channels : SourceClose(c)

Spec == Init /\ [][Next]_vars

SpecSecure == InitSecure /\ [][Next]_vars

NextStart == StartFatal \/ StartRun

SpecStart == InitStart /\ [][NextStart]_vars

-----------------------------------------------------------------------------
(* generateTokens(opts): the tokens given on the command line, or the host   *)
(* labels of the metadata service                                            *)

\* a || b for strings: "" (like undefined) is falsy.
Or(a, b) == IF a # "" THEN a ELSE b

\* opts.token || opts.logstoken || opts.statstoken || opts.eventstoken
AnyTokenGiven(o) ==
  o.token # "" \/ o.logstoken # "" \/ o.statstoken # "" \/ o.eventstoken # ""

\* A plausible slip: the generic token comes before the channel's own.
ProvidedTokensGenericFirst(o) ==
  [o EXCEPT !.logstoken   = Or(o.token, Or(o.logstoken, "")),
            !.statstoken  = Or(o.token, Or(o.statstoken, "")),
            !.eventstoken = Or(o.token, Or(o.eventstoken, ""))]

\* The branch "Using provided tokens".
ProvidedTokens(o) ==
  [o EXCEPT !.logstoken   = Or(o.logstoken, Or(o.token, "")),
            !.statstoken  = Or(o.statstoken, Or(o.token, "")),
            !.eventstoken = Or(o.eventstoken, Or(o.token, ""))]

\* function setTokenValues(labels_data), up to its call of start.
setTokenValues(o, labels) ==
  [o EXCEPT !.logstoken   = Or(labels.logs, Or(labels.base, "")),
            !.statstoken  = Or(labels.stats, Or(labels.base, "")),
            !.eventstoken = Or(labels.events, Or(labels.base, ""))]

\* try { request_cb(JSON.parse(body)) } catch (e) { throw new Error('Unable
\* to parse response ...') }: whatever is thrown inside becomes that error.
Rethrown(e) == IF e # "" THEN "parse" ELSE ""

\* start(o), called by generateTokens; wrap is what the caller does with an
\* error start throws ("direct": nothing, "callback": the try of
\* requestMetadata is around the call).
StartCalled(o, wrap) ==
  LET e == IF Created(o) = {} THEN "no-channel" ELSE ""
  IN  /\ starts' = starts + 1
      /\ thrown' = IF wrap = "callback" THEN Rethrown(e) ELSE e
      /\ IF e # ""
           THEN /\ phase' = "fatal"
                /\ SetConn(BeforeThrow(Conn))
                /\ UNCHANGED <<src, streamsOpened>>
           ELSE /\ phase' = "running"
                /\ src' = [c \in Channels |->
                             IF c \in Created(o) THEN "open" ELSE "none"]
                /\ streamsOpened' = Cardinality(Created(o))
                /\ SetConn(Pipe(Conn))

\* generateTokens(opts)
GenerateTokens ==
  /\ phase = "cli"
  /\ IF AnyTokenGiven(opts)
       THEN /\ opts' = ProvidedTokens(opts)
            /\ StartCalled(opts', "direct")
            /\ UNCHANGED <<lookups, response>>
       ELSE /\ phase' = "lookup"
            /\ lookups' = lookups + 1
            /\ UNCHANGED <<opts, src, streamsOpened, sockets, out, pipes,
                           paused, fbuf, noRestart, thrown, starts, response>>
  /\ UNCHANGED <<eosDone, filterEnded, emitted, stalls, lateClose, shutdowns,
                 shutdownLog, fin, fres>>

\* What the metadata service can answer: no answer or a status other than
\* 200, a body that is not JSON, a JSON object of host labels.
Responses ==
  { [kind |-> k, labels |-> NoLabels] : k \in {"error", "garbage"} }
  \cup
  { [kind |-> "labels", labels |-> l] :
      l \in [base : {"", "B"}, logs : {"", "L"}, stats : {"", "S"},
             events : {"", "E"}] }

\* The callback of request(): the answer of the metadata service arrives.
MetadataResponse ==
  /\ phase = "lookup"
  /\ \E resp \in Responses :
       /\ response' = resp
       /\ IF resp.kind = "error"
            THEN /\ phase' = "fatal"
                 /\ thrown' = "connect"
                 /\ UNCHANGED <<opts, src, streamsOpened, sockets, out, pipes,
                                paused, fbuf, noRestart, starts>>
          ELSE IF resp.kind = "garbage"
            THEN /\ phase' = "fatal"
                 /\ thrown' = Rethrown("syntax")
                 /\ UNCHANGED <<opts, src, streamsOpened, sockets, out, pipes,
                                paused, fbuf, noRestart, starts>>
          ELSE /\ opts' = setTokenValues(opts, resp.labels)
               /\ StartCalled(opts', "callback")
  /\ UNCHANGED <<eosDone, filterEnded, emitted, stalls, lateClose, shutdowns,
                 shutdownLog, fin, fres, lookups>>

\* cli()'s options: the four tokens given or not, the channels switched on
\* or off.
TokenConfigs ==
  [ logs : {"true", "false"}, stats : {"true", "false"},
    dockerEvents : {"true"},
    token : {"", "T"},
    logstoken : {"", "LT"}, statstoken : {"", "ST"}, eventstoken : {"", "ET"},
    matchByName : {<<>>}, matchByImage : {<<>>},
    skipByName : {<<>>}, skipByImage : {<<>>},
    add : { << <<"host", h1>> >> }, secure : {FALSE} ]

\* The state when cli() calls generateTokens.
InitTokens ==
  /\ opts \in TokenConfigs
  /\ phase = "cli"
  /\ src = [c \in Channels |-> "none"]
  /\ eosDone = [c \in Channels |-> FALSE]
  /\ streamsOpened = 0
  /\ filterEnded = FALSE
  /\ fbuf = <<>>
  /\ pipes = {}
  /\ paused = FALSE
  /\ sockets = <<>>
  /\ out = 0
  /\ noRestart = 0
  /\ emitted = <<>>
  /\ stalls = 0
  /\ lateClose = FALSE
  /\ shutdowns = 0
  /\ shutdownLog = <<>>
  /\ fin = <<>>
  /\ fres = NoResult
  /\ thrown = ""
  /\ lookups = 0
  /\ starts = 0
  /\ response = NoResponse

NextTokens == GenerateTokens \/ MetadataResponse

SpecTokens == InitTokens /\ [][NextTokens]_vars

-----------------------------------------------------------------------------
(* The filter claims, checked under SpecFilter *)

Forwarded == fres.pushed # <<>>

undefinedText == <<"u", "n", "d", "e", "f", "i", "n", "e", "d">>

\* What JavaScript answers for the patterns and texts of the check: the
\* <<pattern, text>> pairs for which text.match(new RegExp(pattern)) is not
\* null.  (String(undefined) is "undefined", which holds an "n".)
JsMatches ==
  { << <<"^", "w", "e", "b">>, web1 >>, << <<"^", "w", "e", "b">>, webdb >>,
    << <<"d", "b">>, db1 >>, << <<"d", "b">>, webdb >>,
    << <<"n">>, nginx >>, << <<"n">>, node >>, << <<"n">>, undefinedText >>,
    << <<"x", "$">>, nginx >> }

FieldText(field) ==
  IF HasKey(fres.obj, field) THEN Get(fres.obj, field) ELSE undefinedText

MatchChecks == { <<opts.matchByName, "name">>, <<opts.matchByImage, "image">> }
SkipChecks  == { <<opts.skipByName, "name">>, <<opts.skipByImage, "image">> }

FailedChecks ==
  { c \in MatchChecks : c[1] # <<>> /\ <<c[1], FieldText(c[2])>> \notin JsMatches }
  \cup
  { c \in SkipChecks : c[1] # <<>> /\ <<c[1], FieldText(c[2])>> \in JsMatches }

AllPatternsSet ==
  /\ opts.matchByName # <<>> /\ opts.matchByImage # <<>>
  /\ opts.skipByName # <<>> /\ opts.skipByImage # <<>>

(* C4: an event whose kind has a non-empty token is forwarded if and only if
   every set match* pattern matches its name/image and no set skip* pattern
   matches; an empty pattern does not count, one failing check drops it. *)
C4_FilterTruthTable ==
  (fres.cb /\ fres.token # "") => (Forwarded <=> FailedChecks = {})

\* All four patterns set, three checks pass, one fails: the event is dropped.
C4_Witness ==
  /\ fres.cb /\ fres.token # "" /\ AllPatternsSet
  /\ Cardinality(FailedChecks) = 1
  /\ ~Forwarded

PayloadKeys == {"line", "type", "stats"}

TokenOf(k) ==
  IF k = "line" THEN opts.logstoken
  ELSE IF k = "type" THEN opts.eventstoken
  ELSE opts.statstoken

Present == { k \in PayloadKeys : HasKey(fres.obj, k) }

(* C5: a forwarded event carries a non-empty token, the token configured for
   a payload field it has (for an event with one payload field: the token of
   its kind, never another kind's); an event whose kind's token is empty is
   dropped whatever the other tokens are; an event with no payload field is
   dropped, and the transform calls its callback. *)
C5_TokenRouting ==
  /\ fin # <<>> => fres.cb
  /\ Forwarded =>
       /\ fres.pushed[1] # ""
       /\ \E k \in Present : fres.pushed[1] = TokenOf(k)
  /\ \A k \in PayloadKeys :
       (fres.cb /\ Present = {k} /\ TokenOf(k) = "") => ~Forwarded
  /\ (fres.cb /\ Present = {}) => ~Forwarded

\* The spec's example: a log line with only logstoken set goes out with it.
C5_Witness ==
  /\ fres.cb /\ Present = {"line"}
  /\ opts.statstoken = "" /\ opts.eventstoken = ""
  /\ Forwarded /\ fres.pushed[1] = "LT"

(* C6: the kind is decided by which of line, type, stats is present, in that
   order, whatever the value: an event with a line field gets logstoken, one
   with type and no line gets eventstoken, one with only stats statstoken. *)
C6_KindByPresence ==
  fres.cb =>
    /\ HasKey(fres.obj, "line") => fres.token = opts.logstoken
    /\ (~HasKey(fres.obj, "line") /\ HasKey(fres.obj, "type"))
         => fres.token = opts.eventstoken
    /\ (Present = {"stats"}) => fres.token = opts.statstoken

AddedKeys == IF opts.add = NullProto THEN {} ELSE Keys(opts.add)

Enriched ==
  fres.cb =>
    /\ \A k \in AddedKeys : Get(fres.obj, k) = Get(opts.add, k)
    /\ \A k \in Keys(fin) \ AddedKeys : Get(fres.obj, k) = Get(fin, k)
    /\ Keys(fres.obj) = Keys(fin) \cup AddedKeys

(* C7: after addAll the event holds the enrichment value under every
   enrichment key (an existing field of that name is overwritten), every other
   field is as it was, and no step changes opts.add. *)
C7_Enrichment == [][opts'.add = opts.add /\ Enriched']_vars

\* The spec's example: the event's own host field is overwritten.
C7_Witness ==
  /\ fres.cb
  /\ Get(fin, "host") = old
  /\ Get(fres.obj, "host") = h1
  /\ Get(fres.obj, "name") = web1

(* C8: a passing event makes the filter push exactly four chunks: the token,
   one space, the serialized enriched event, one line terminator; a dropped
   event pushes nothing. *)
C8_WireEncoding ==
  fres.cb =>
    IF fres.token # "" /\ FailedChecks = {}
      THEN /\ Len(fres.pushed) = 4
           /\ fres.pushed[1] = fres.token
           /\ fres.pushed[2] = " "
           /\ fres.pushed[3] = Stringify(fres.obj)
           /\ fres.pushed[4] = "\n"
      ELSE fres.pushed = <<>>

\* The spec's end-to-end example, with this check's texts.
C8_Witness ==
  fres.pushed =
    << "LT", " ",
       "{\"line\":\"hello\",\"name\":\"web1\",\"image\":\"node\",\"host\":\"h1\"}",
       "\n" >>

-----------------------------------------------------------------------------
(* The claims about start(), checked under SpecStart *)

NoChannel ==
  \A c \in Channels : opts[c] = "false" \/ ChannelToken(opts, c) = ""

(* C9: if no channel is enabled (every flag is false or its token empty),
   start throws and connect() is never called: no socket exists, out is
   unset, the run never reaches "running". *)
C9_NoChannelNoConnect ==
  NoChannel =>
    /\ phase \in {"boot", "fatal"}
    /\ sockets = <<>> /\ out = 0 /\ pipes = {}
    /\ \A c \in Channels : src[c] = "none"

\* start threw although a token is configured (for a channel switched off)
\* and a channel is switched on by default (with no token).
C9_Witness ==
  /\ phase = "fatal"
  /\ \E c \in Channels : opts[c] = "false" /\ ChannelToken(opts, c) # ""
  /\ \E c \in Channels : opts[c] = "absent" /\ ChannelToken(opts, c) = ""

(* C10, as claimed: a source is created only if its flag is true and its
   token is non-empty, the counter equals the number of sources created, and
   a channel whose flag is absent is not active. *)
C10_FlagMustBeTrue ==
  phase = "running" =>
    /\ \A c \in Channels :
         src[c] # "none" => (opts[c] = "true" /\ ChannelToken(opts, c) # "")
    /\ streamsOpened = Cardinality({c \in Channels : src[c] # "none"})

(* C10, amended: a source is created only if its flag is not false (true or
   absent) and its token is non-empty, the counter before any completion
   equals the number of sources created, and a channel whose flag is absent
   is active exactly when one whose flag is true would be. *)
C10_FlagNotFalse ==
  phase = "running" =>
    /\ \A c \in Channels :
         src[c] # "none" => (opts[c] # "false" /\ ChannelToken(opts, c) # "")
    /\ \A c \in Channels :
         (opts[c] = "absent" /\ ChannelToken(opts, c) # "") => src[c] = "open"
    /\ streamsOpened = Cardinality({c \in Channels : src[c] # "none"})
    /\ streamsOpened >= 1

\* A running program with a source of a channel whose flag was not given,
\* and a channel left out because its token is empty.
C10_Witness ==
  /\ phase = "running"
  /\ \E c \in Channels : opts[c] = "absent" /\ src[c] = "open"
  /\ \E c \in Channels : opts[c] = "true" /\ src[c] = "none"
  /\ streamsOpened = 2

-----------------------------------------------------------------------------
(* The claims about the running program, checked under Spec *)

SomeOpen == \E c \in Channels : src[c] = "open"

Started == phase \in {"running", "crashed"}

(* C1: once every source has completed, by end or by error and whatever the
   sockets did meanwhile, streamsOpened is 0 and streamClosed has shut the
   connection down exactly once (reconnect cancelled, socket destroyed); it
   never shuts down while a source is open. *)
C1_ShutdownOnce ==
  /\ (Started /\ ~SomeOpen) =>
       /\ streamsOpened = 0
       /\ shutdowns = 1
       /\ ~sockets[out].eosOn
       /\ sockets[out].st \in {"destroyed", "closed"}
  /\ SomeOpen => shutdowns = 0
  /\ \A i \in 1..Len(shutdownLog) : shutdownLog[i].open = {}

\* Three sources have completed, after two reconnects, and one of them was
\* heard of twice.
C1_Witness ==
  /\ Started /\ ~SomeOpen
  /\ \A c \in Channels : src[c] = "done"
  /\ Len(sockets) = 3
  /\ lateClose
  /\ ~filterEnded

ChunkWritten(n, i) ==
  \/ \E k \in 1..Len(fbuf) : fbuf[k].ev = n /\ fbuf[k].part = i
  \/ \E s \in 1..Len(sockets) : \E k \in 1..Len(sockets[s].rcv) :
       sockets[s].rcv[k].ev = n /\ sockets[s].rcv[k].part = i

(* C2: after the socket has closed with a source still open, pipe() has run
   again: the current socket is a new, live one, the filter is piped to it
   and to nothing else, and every passing event a source emitted since is
   written to a socket (or still waits in the filter for a paused one). *)
C2_ReconnectContinues ==
  (Started /\ SomeOpen /\ Len(sockets) > 1) =>
    /\ phase = "running"
    /\ out = Len(sockets)
    /\ sockets[out].st \in {"connecting", "open"}
    /\ sockets[out].eosOn
    /\ pipes = {out}
    /\ \A n \in 1..Len(emitted) :
         (emitted[n].passes /\ emitted[n].reconnected) =>
           \A i \in 1..4 : ChunkWritten(n, i)

\* The part of C2 that holds: as long as no source has ended (filter.end()
\* has not been called), every closure is followed by a new live socket
\* and every passing event is written.
ReconnectWhileFilterOpen ==
  (Started /\ SomeOpen /\ ~filterEnded) =>
    /\ phase = "running"
    /\ out = Len(sockets)
    /\ sockets[out].st \in {"connecting", "open"}
    /\ sockets[out].eosOn
    /\ pipes = {out}
    /\ \A n \in 1..Len(emitted) :
         emitted[n].passes => \A i \in 1..4 : ChunkWritten(n, i)

(* C3: shutdown cancels the reconnect before it destroys the current socket:
   the destroyed socket has no eos listener, and from the shutdown on no
   socket is created, whatever 'close' or 'error' the current and the earlier
   sockets still emit. *)
C3_NoReconnectAfterShutdown ==
  shutdowns >= 1 =>
    /\ Len(sockets) = shutdownLog[1].sockets
    /\ out = Len(sockets) /\ noRestart = out
    /\ ~sockets[out].eosOn
    /\ sockets[out].st \in {"destroyed", "closed"}
    /\ phase = "running"

\* After the shutdown the 'close' of the destroyed socket and of an earlier
\* socket have both been delivered.
C3_Witness ==
  /\ shutdowns = 1
  /\ Len(sockets) >= 2
  /\ \A k \in 1..Len(sockets) : sockets[k].st = "closed"


OpenSources == {c \in Channels : src[c] = "open"}

(* C13: the counter equals the number of created sources that have not
   completed: every completion (end, error, premature close, or an error or
   end followed by a close of the same source) takes exactly one off, so it
   is never negative and no source is counted off twice. *)
C13_CountMatchesOpen ==
  Started =>
    /\ streamsOpened = Cardinality(OpenSources)
    /\ streamsOpened >= 0
    /\ \A c \in Channels : eosDone[c] <=> src[c] = "done"

\* One source has completed and has been heard of a second time (its
\* 'close' after its end or error) while two sources are still open.
C13_Witness ==
  /\ phase = "running"
  /\ lateClose
  /\ Cardinality(OpenSources) = 2
  /\ streamsOpened = 2

(* C14: after one source has ended gracefully with another source still
   open, the filter keeps accepting events: the program keeps running and
   every passing event a still-open source has emitted is pushed by the
   filter and written to a socket (or waits in the filter's buffer). *)
C14_SourcesIndependent ==
  (Started /\ filterEnded /\ \E c \in Channels : src[c] = "done") =>
    /\ phase = "running"
    /\ \A n \in 1..Len(emitted) :
         emitted[n].passes => \A i \in 1..4 : ChunkWritten(n, i)


\* rcv is a run of whole records: the pieces 1, 2, 3, 4 of one event, then
\* the pieces 1, 2, 3, 4 of another.
WholeRecords(rcv, complete) ==
  /\ \A k \in 1..Len(rcv) :
       /\ rcv[k].part = ((k - 1) % 4) + 1
       /\ rcv[k].part > 1 => rcv[k - 1].ev = rcv[k].ev
  /\ complete => Len(rcv) % 4 = 0

(* C15: every socket receives whole records only: the four pieces of a
   record follow each other on one socket, the input of a socket does not
   begin in the middle of a record, and the input of a socket that has been
   replaced does not end in the middle of one. *)
C15_WholeRecords ==
  \A s \in 1..Len(sockets) : WholeRecords(sockets[s].rcv, s # out)

Fired == {k \in 1..Len(sockets) : sockets[k].eosFired}

(* C16: the filter is piped to at most one socket, the one in the variable
   out, which is the socket created last; noRestart cancels the reconnect of
   that socket; every socket whose end eos has heard of, as 'error', as
   'finish', as 'close' or as several of them, has caused one call of pipe()
   and so one new socket. *)
C16_OneTransport ==
  Started =>
    /\ pipes \subseteq {out}
    /\ out = Len(sockets)
    /\ noRestart = out
    /\ Len(sockets) = 1 + Cardinality(Fired)
    /\ \A k \in 1..Len(sockets) : k # out => sockets[k].eosFired

\* Two sockets have ended, the first with an 'error' followed by a 'close',
\* and the filter is piped to the third.
C16_Witness ==
  /\ phase = "running"
  /\ Len(sockets) = 3
  /\ sockets[1].st = "closed" /\ sockets[2].st = "ended"
  /\ pipes = {3} /\ noRestart = 3


Range(f) == {f[i] : i \in 1..Len(f)}

\* Every record the filter has produced is in its buffer or on a socket.
NothingLost ==
  phase = "running" =>
    \A n \in 1..Len(emitted) :
      emitted[n].passes => \A i \in 1..4 : ChunkWritten(n, i)

\* While a live socket is attached, chunks wait in the filter only because
\* that socket's last write returned false and it has not emitted 'drain'.
FlowsUnlessCurrentStalls ==
  (phase = "running" /\ sockets # <<>> /\ sockets[out].eosOn) =>
    /\ out \in pipes
    /\ (paused \/ fbuf # <<>>) =>
         (paused /\ sockets[out].needDrain
          /\ sockets[out].st \in {"connecting", "open"})

\* A step in which a closure makes pipe() connect again.
ReattachStep ==
  Len(sockets) >= 1 /\ Len(sockets') = Len(sockets) + 1

\* What a reconnect does with the waiting chunks: they go to the new socket,
\* or wait for its 'drain'; the sources are as they were.
ReattachKeepsRecords ==
  ReattachStep =>
    /\ src' = src /\ streamsOpened' = streamsOpened
    /\ \A i \in 1..Len(fbuf) :
         fbuf[i] \in Range(sockets'[out'].rcv) \cup Range(fbuf')
    /\ fbuf' # <<>> => paused'
    /\ paused' => sockets'[out'].needDrain

(* C17: across a reconnect no unwritten record is lost and flow resumes:
   the chunks the filter holds when the old socket closes, those held back by
   its backpressure included, are written to the new socket, the filter does
   not stay paused on account of the old socket, and no source is touched. *)
C17_NoLossAcrossReconnect ==
  [](NothingLost /\ FlowsUnlessCurrentStalls) /\ [][ReattachKeepsRecords]_vars

\* A record written half to the first socket, which stalled and closed, and
\* half to the second, with the filter flowing again.
C17_Witness ==
  /\ phase = "running"
  /\ Len(sockets) = 2 /\ stalls = 1
  /\ sockets[1].rcv # <<>> /\ sockets[2].rcv # <<>>
  /\ ~paused /\ fbuf = <<>>
  /\ Len(emitted) = 1 /\ ~emitted[1].reconnected

\* All chunks written, socket after socket in the order of creation.
RECURSIVE Written(_)
Written(k) == IF k = 0 THEN <<>> ELSE Written(k - 1) \o sockets[k].rcv

(* C20: the chunks written to the sockets, taken socket by socket in order of
   creation and then in order of writing, are in the order the events were
   emitted (so in the order of every single source), and no chunk of any
   record is written twice, over any number of reconnects. *)
C20_OrderedOnce ==
  LET w == Written(Len(sockets))
  IN  \A i, j \in 1..Len(w) :
        i < j => \/ w[i].ev < w[j].ev
                 \/ (w[i].ev = w[j].ev /\ w[i].part < w[j].part)

\* Two events of the logs source, the first written to the first socket and
\* the second to the socket that replaced it.
C20_Witness ==
  /\ Len(sockets) >= 2
  /\ Len(emitted) = 2
  /\ \A n \in 1..2 : emitted[n].src = "logs" /\ emitted[n].passes
  /\ \E k \in 1..Len(sockets[1].rcv) : sockets[1].rcv[k].ev = 1
  /\ \E k \in 1..Len(sockets[2].rcv) : sockets[2].rcv[k].ev = 2


\* The payload fields of the raw event, as its source produced it.
RawPresent == { k \in PayloadKeys : HasKey(fin, k) }

(* C19: enrichment never changes routing: whatever opts.add holds, an event
   forwarded carries the token of the channel whose source produced it (a
   raw event with the one payload field line, type or stats comes from the
   logs, the events or the stats source). *)
C19_RoutingBySource ==
  \A k \in PayloadKeys :
    (fres.cb /\ RawPresent = {k} /\ Forwarded) => fres.pushed[1] = TokenOf(k)


-----------------------------------------------------------------------------
(* The claim about secure mode, checked under SpecSecure *)

Unauthorized == {k \in 1..Len(sockets) : sockets[k].auth = "no"}

(* C11: in secure mode, once a socket's handshake has completed with the
   peer not authorized, the process has failed with that error: the socket
   is the last one created, eos's reconnect has not run for it, and nothing
   is written to it afterwards. *)
C11_UnauthorizedIsFatal ==
  \A k \in Unauthorized :
    /\ phase = "crashed" /\ thrown = "unauthorized"
    /\ k = Len(sockets) /\ k = out
    /\ ~sockets[k].eosFired
    /\ sockets[k].st = "open"

\* The second socket, created by a reconnect, met an unauthorized peer,
\* after the first had met an authorized one and failed later.
C11_Witness ==
  /\ Len(sockets) = 2
  /\ sockets[1].auth = "yes" /\ sockets[2].auth = "no"
  /\ phase = "crashed"
  /\ SomeOpen


-----------------------------------------------------------------------------
(* The claims about generateTokens, checked under SpecTokens *)

\* The first non-empty of own and fallback, else empty.
FirstSet(own, fallback) ==
  IF own # "" THEN own ELSE IF fallback # "" THEN fallback ELSE ""

\* generateTokens with a token configured: no lookup, the channel tokens
\* from the configuration, start called.
ExplicitStep ==
  (phase = "cli" /\ AnyTokenGiven(opts)) =>
    /\ lookups' = 0 /\ starts' = 1
    /\ opts'.logstoken = FirstSet(opts.logstoken, opts.token)
    /\ opts'.statstoken = FirstSet(opts.statstoken, opts.token)
    /\ opts'.eventstoken = FirstSet(opts.eventstoken, opts.token)
    /\ phase' \in {"running", "fatal"}

\* generateTokens with no token configured: the lookup is made, start is
\* not called yet.
LookupStep ==
  (phase = "cli" /\ ~AnyTokenGiven(opts)) =>
    /\ lookups' = 1 /\ starts' = 0
    /\ opts' = opts /\ phase' = "lookup"

\* The answer arrives: labels give the channel tokens and start is called;
\* a failed lookup ends the run without a call of start.
AnswerStep ==
  phase = "lookup" =>
    /\ lookups' = 1
    /\ IF response'.kind = "labels"
         THEN /\ starts' = 1
              /\ opts'.logstoken =
                   FirstSet(response'.labels.logs, response'.labels.base)
              /\ opts'.statstoken =
                   FirstSet(response'.labels.stats, response'.labels.base)
              /\ opts'.eventstoken =
                   FirstSet(response'.labels.events, response'.labels.base)
         ELSE /\ starts' = 0
              /\ phase' = "fatal"
              /\ sockets' = <<>> /\ src' = src

(* C12: with any of token, logstoken, statstoken, eventstoken configured no
   lookup is made and each channel token is its own token, else the generic
   token, else empty; with none configured the lookup is made once and each
   channel token is its own label, else the base label, else empty; start is
   called at most once, and not at all when the lookup fails. *)
C12_TokenResolution ==
  /\ [](starts <= 1 /\ lookups <= 1 /\ (lookups = 1 => opts.token = ""))
  /\ [][ExplicitStep /\ LookupStep /\ AnswerStep]_vars

\* The labels gave a logs token and a base token: the logs channel runs
\* with its own, the other two with the base token.
C12_Witness ==
  /\ lookups = 1 /\ starts = 1 /\ phase = "running"
  /\ response.labels = [base |-> "B", logs |-> "L", stats |-> "", events |-> ""]
  /\ opts.logstoken = "L" /\ opts.statstoken = "B" /\ opts.eventstoken = "B"

(* C18: the error 'Unable to parse response from metadata service' is raised
   only when the body cannot be parsed; when the body parses and start then
   fails because no channel is enabled, the error is start's own. *)
C18_ErrorKindsDistinct ==
  /\ thrown = "parse" => response.kind = "garbage"
  /\ (response.kind = "labels" /\ phase = "fatal") => thrown = "no-channel"

=============================================================================
